---- MODULE Spec2Model ----
(***************************************************************************)
(* The Presence & Realtime Gateway of Co-Link                              *)
(* (src/services/presence/app/main.py): the ConnectionManager registry,    *)
(* the websocket_endpoint dispatcher, the per-connection heartbeat_checker *)
(* and the Redis pub/sub listener, as asyncio tasks.  A task runs          *)
(* atomically from one suspension point (an await of socket, store, bus or *)
(* timer I/O) to the next; each action below is one such segment.          *)
(***************************************************************************)
EXTENDS Integers, Sequences, FiniteSets, TLC

\* ------------------------------------------------------------- universe

\* connection ids (uuid4 values) in the order in which they are handed out
ConnSeq == <<"c1", "c2">>
ConnIds == {ConnSeq[i] : i \in 1..Len(ConnSeq)}
ConnIndex(c) == CHOOSE i \in 1..Len(ConnSeq) : ConnSeq[i] = c
Users == {"u1", "u2"}
BUS == "bus"
API == "api"
Tasks == ConnIds \cup {BUS, API}

None == "None"
NoId == <<>>
ChannelVals == {<<"channel_", "1">>}
DmVals == {<<"dm_", "1">>}
RoomIds == ChannelVals \cup DmVals

\* the frames a client sends: "pong" is a type WSMessage accepts and the
\* dispatcher does not handle, "bogus" one that WSMessage rejects
Frames ==
  [type : {"subscribe", "unsubscribe", "typing"},
   channel_id : ChannelVals \cup {NoId}, dm_id : DmVals \cup {NoId}]
  \cup [type : {"ping", "pong", "bogus"}, channel_id : {NoId}, dm_id : {NoId}]

\* bounds of the model: what the environment does in one run
MaxFrames == 3
MaxTicks == 6
MaxBreaks == 2
MaxExternal == 1
MaxApi == 1
MaxIdleTicks == 3
MaxOutages == 1
MaxBusMsgs == 2

\* program constants
PRESENCE_TTL == 300
TYPING_TTL == 5
HEARTBEAT_INTERVAL == 30
\* the clock advances in steps of half a heartbeat interval, or of half a
\* presence TTL in the runs that watch presence records expire
TickLen == HEARTBEAT_INTERVAL \div 2
LongTick == PRESENCE_TTL \div 2

\* The runs explored: how many connections are opened, frames sent, peers
\* lost, clock ticks, messages of other services and direct calls of
\* broadcast_to_room there are in one run, the length of a clock tick, and
\* how often Redis becomes unreachable.
Budget(conns, frames, breaks, ticks, external, api) ==
  [conns |-> conns, frames |-> frames, breaks |-> breaks, ticks |-> ticks,
   external |-> external, api |-> api, step |-> TickLen, outages |-> 0]
Scenarios ==
  { Budget(1, MaxFrames, 1, 0, 0, 0),
    Budget(2, 0, 1, 0, 0, 0),
    Budget(1, 1, 0, MaxTicks, 0, 0),
    [Budget(1, 0, 0, MaxIdleTicks, 0, 0) EXCEPT !.step = LongTick],
    [Budget(1, 1, 1, 0, 0, 0) EXCEPT !.outages = MaxOutages] }
EstScenarios ==
  { Budget(0, MaxFrames - 1, 1, 0, 0, 0),
    Budget(0, 1, 0, 1, 0, 0),
    Budget(0, 1, MaxBreaks, 0, 0, 0),
    Budget(0, 1, 1, 0, MaxExternal, 0),
    [Budget(0, 1, 1, 0, 0, 0) EXCEPT !.outages = MaxOutages],
    Budget(0, 0, 1, 0, MaxBusMsgs, 0),
    Budget(0, MaxFrames - 1, 0, 0, MaxExternal, 0) }
IdleScenarios ==
  { Budget(0, 1, 1, 0, 0, 0) }
TwinScenarios ==
  { Budget(0, 1, 1, 0, 0, 0) }
ApiScenarios ==
  { Budget(0, 1, 1, 0, 0, MaxApi) }

MessageType ==
  {"subscribe", "unsubscribe", "typing", "ping", "pong", "subscribed",
   "unsubscribed", "message", "presence", "error"}

\* ------------------------------------------------------------- messages

Msg(type, channel_id, dm_id, user_id, status, code) ==
  [type |-> type, channel_id |-> channel_id, dm_id |-> dm_id,
   user_id |-> user_id, status |-> status, code |-> code, room_id |-> NoId]

PongMessage == Msg("pong", NoId, NoId, None, None, 0)
\* the confirmation with the id echoed in the other field
SubscribedMessage_Swapped(channel_id, dm_id) ==
  Msg("subscribed", dm_id, channel_id, None, None, 0)
SubscribedMessage(channel_id, dm_id) ==
  Msg("subscribed", channel_id, dm_id, None, None, 0)
UnsubscribedMessage(channel_id, dm_id) ==
  Msg("unsubscribed", channel_id, dm_id, None, None, 0)
ErrorMessage(code) == Msg("error", NoId, NoId, None, None, code)
PresenceBroadcast(user_id, status) ==
  Msg("presence", NoId, NoId, user_id, status, 0)
StartsWith(room_id, prefix) == room_id # NoId /\ room_id[1] = prefix
TypingBroadcast(room_id, user_id) ==
  Msg("typing",
      IF StartsWith(room_id, "channel_") THEN room_id ELSE NoId,
      IF StartsWith(room_id, "dm_") THEN room_id ELSE NoId,
      user_id, None, 0)
\* a message published on "message:broadcast" by another service; the
\* listener reads its "room_id"
MessageBroadcast(room_id) ==
  [Msg("message", NoId, NoId, None, None, 0) EXCEPT !.room_id = room_id]

\* room_id = msg.channel_id or msg.dm_id
RoomIdOf(frame) ==
  IF frame.channel_id # NoId THEN frame.channel_id ELSE frame.dm_id

\* ------------------------------------------------------------- state

VARIABLES
  active_connections,  \* keys of ConnectionManager.active_connections
  conn_user,           \* ConnectionInfo.user_id of each connection
  last_heartbeat,      \* ConnectionInfo.last_heartbeat
  subscriptions,       \* ConnectionInfo.subscriptions (a list)
  websockets,          \* keys of ConnectionManager.websockets, insertion order
  room_subscriptions,  \* room_id -> set of connection ids
  presence,            \* Redis keys presence:<user_id>
  typing,              \* Redis keys typing:<room_id>:<user_id> (expiry time)
  bus,                 \* messages delivered to the pub/sub listener, in order
  published,           \* what this instance has PUBLISHed: <<channel, message>>
  redis_up,            \* the Redis server answers
  sock,                \* state of each connection's transport
  close_code,          \* the close code the server sent (0: none)
  task,                \* the dispatcher tasks and the listener task
  wd,                  \* the heartbeat_checker tasks
  now,                 \* the clock
  budget,              \* what the environment has done so far (bounded)
  handled,             \* per connection: the frame being handled, its effects
  hist                 \* per connection: history of cleanup effects

vars == <<active_connections, conn_user, last_heartbeat, subscriptions,
          websockets, room_subscriptions, presence, typing, bus, published,
          redis_up, sock, close_code, task, wd, now, budget, handled, hist>>

registry == <<active_connections, conn_user, last_heartbeat, subscriptions,
              websockets, room_subscriptions>>
store == <<presence, typing, bus, published, redis_up>>

SeqToSet(s) == {s[i] : i \in 1..Len(s)}
WsKeys == SeqToSet(websockets)
\* disconnect leaving the socket entry behind
RemoveKey_Keep(s, c) == s
RemoveKey(s, c) == SelectSeq(s, LAMBDA x : x # c)

\* a Python dict with a changing key set
EmptyDict == [x \in {} |-> {}]
DictDel(f, k) == [x \in DOMAIN f \ {k} |-> f[x]]
DictSet(f, k, v) == [x \in DOMAIN f \cup {k} |-> IF x = k THEN v ELSE f[x]]

NoPresence ==
  [status |-> "absent", connection_id |-> None, last_seen |-> 0, expires |-> 0]

IdleTask ==
  [pc |-> "new", ctx |-> None, tgt |-> None, msg |-> PongMessage,
   rest |-> {}, excl |-> None, user |-> None, hb |-> FALSE,
   room |-> NoId, snap |-> {}, deliv |-> {}, stay |-> {}, missed |-> {},
   cause |-> None, during |-> FALSE, cid |-> FALSE, bno |-> 0,
   caught |-> 0]

NoFrame == [type |-> None, channel_id |-> NoId, dm_id |-> NoId]
NoHandled ==
  [frame |-> NoFrame, replies |-> <<>>, reg |-> FALSE, store |-> FALSE,
   bcast |-> FALSE, failed |-> FALSE, gone |-> FALSE, live |-> FALSE,
   at |-> 0]

NoHist ==
  [removals |-> 0, offline_writes |-> 0, offline_pubs |-> 0,
   keyerror |-> FALSE, closed_by |-> None, close_gap |-> 0,
   late |-> FALSE, err_from |-> None, typing_sent |-> 0,
   typing_rcvd |-> <<>>, broke |-> FALSE, unverified |-> FALSE,
   send_failed |-> FALSE, rcvd |-> <<>>, punctual |-> FALSE]

\* the state after construction: no connection, the listener subscribed
Fresh ==
  /\ active_connections = {}
  /\ conn_user = [c \in ConnIds |-> None]
  /\ last_heartbeat = [c \in ConnIds |-> 0]
  /\ subscriptions = [c \in ConnIds |-> <<>>]
  /\ websockets = <<>>
  /\ room_subscriptions = EmptyDict
  /\ presence = [u \in Users |-> NoPresence]
  /\ typing = [k \in RoomIds \X Users |-> 0]
  /\ bus = <<>>
  /\ published = {}
  /\ redis_up = TRUE
  /\ sock = [c \in ConnIds |-> "none"]
  /\ close_code = [c \in ConnIds |-> 0]
  /\ task = [k \in Tasks |-> IF k \in ConnIds THEN IdleTask
                             ELSE [IdleTask EXCEPT !.pc = "idle"]]
  /\ wd = [c \in ConnIds |-> [pc |-> "none", wake |-> 0, woke |-> FALSE]]
  /\ now = 0
  /\ handled = [c \in ConnIds |-> NoHandled]
  /\ hist = [c \in ConnIds |-> NoHist]

\* a later state of the same run: every connection has connected (the i-th as
\* user i), received its pong and the presence frames, and has subscribed to
\* the one channel; every task waits
TheChannel == CHOOSE r \in ChannelVals : TRUE
EstUser(c) == IF ConnIndex(c) = 1 THEN "u1" ELSE "u2"
\* of the connections of one user the one that connected last wrote the
\* user's presence record
LastOf(user_of, u) ==
  CHOOSE c \in ConnIds :
    /\ user_of[c] = u
    /\ \A d \in ConnIds : user_of[d] = u => ConnIndex(d) <= ConnIndex(c)
EstablishedFor(user_of, time, wake) ==
  /\ active_connections = ConnIds
  /\ conn_user = user_of
  /\ last_heartbeat = [c \in ConnIds |-> 0]
  /\ subscriptions = [c \in ConnIds |-> <<TheChannel>>]
  /\ websockets = ConnSeq
  /\ room_subscriptions = DictSet(EmptyDict, TheChannel, ConnIds)
  /\ presence = [u \in Users |->
                   IF \E c \in ConnIds : user_of[c] = u
                   THEN [status |-> "online",
                         connection_id |-> LastOf(user_of, u),
                         last_seen |-> 0, expires |-> PRESENCE_TTL]
                   ELSE NoPresence]
  /\ typing = [k \in RoomIds \X Users |-> 0]
  /\ bus = <<>>
  /\ published = {<<"presence:updates", PresenceBroadcast(user_of[c], "online")>> :
                     c \in ConnIds}
  /\ redis_up = TRUE
  /\ sock = [c \in ConnIds |-> "open"]
  /\ close_code = [c \in ConnIds |-> 0]
  /\ task = [k \in Tasks |->
               IF k \in ConnIds
               THEN [IdleTask EXCEPT !.pc = "recv", !.user = user_of[k],
                                     !.hb = TRUE, !.cid = TRUE]
               ELSE IF k = BUS
               THEN [IdleTask EXCEPT !.pc = "idle", !.snap = ConnIds,
                                     !.deliv = ConnIds, !.stay = ConnIds]
               ELSE [IdleTask EXCEPT !.pc = "idle"]]
  /\ wd = [c \in ConnIds |-> [pc |-> "sleep", wake |-> wake,
                           woke |-> (time >= HEARTBEAT_INTERVAL)]]
  /\ now = time
  /\ handled = [c \in ConnIds |->
                  [NoHandled EXCEPT
                     !.frame = [type |-> "subscribe", channel_id |-> TheChannel,
                                dm_id |-> NoId],
                     !.replies = <<SubscribedMessage(TheChannel, NoId)>>,
                     !.reg = TRUE, !.live = TRUE]]
  /\ hist = [c \in ConnIds |->
               [NoHist EXCEPT !.late = (time >= HEARTBEAT_INTERVAL)]]

EstablishedAt(time, wake) ==
  EstablishedFor([c \in ConnIds |-> EstUser(c)], time, wake)

Established == EstablishedAt(0, HEARTBEAT_INTERVAL)

\* the same with every connection opened by one user (two devices)
EstablishedTwin ==
  EstablishedFor([c \in ConnIds |-> "u1"], 0, HEARTBEAT_INTERVAL)

\* the same, three heartbeat intervals later with no frame received since:
\* the watchdogs woke after one and two intervals and are due again
IdleSince == EstablishedAt(3 * HEARTBEAT_INTERVAL, 3 * HEARTBEAT_INTERVAL)

Init ==
  \/ Fresh /\ budget \in Scenarios
  \/ Established /\ budget \in EstScenarios
  \/ IdleSince /\ budget \in IdleScenarios
  \/ EstablishedTwin /\ budget \in TwinScenarios

\* ------------------------------------------------- registry operations
\* The registry part that subscribe and unsubscribe change, as a value.

Reg(rooms, subs) == [rooms |-> rooms, subs |-> subs]
CurReg == Reg(room_subscriptions, subscriptions)

\* list.remove(x): removes the first occurrence
RECURSIVE RemoveFirst(_, _)
RemoveFirst(s, x) ==
  IF s = <<>> THEN <<>>
  ELSE IF Head(s) = x THEN Tail(s)
  ELSE <<Head(s)>> \o RemoveFirst(Tail(s), x)

\* subscribe taking a member that is already there out of the room again
SubscribeOp_Toggle(reg, c, room_id) ==
  LET members == IF room_id \in DOMAIN reg.rooms THEN reg.rooms[room_id] ELSE {}
  IN  Reg(DictSet(reg.rooms, room_id,
                  (members \ {c}) \cup ({c} \ members)),
          [reg.subs EXCEPT ![c] = Append(@, room_id)])
\* subscribe appending the room to every connection's list
SubscribeOp_AllLists(reg, c, room_id) ==
  LET members == IF room_id \in DOMAIN reg.rooms THEN reg.rooms[room_id] ELSE {}
  IN  Reg(DictSet(reg.rooms, room_id, members \cup {c}),
          [d \in DOMAIN reg.subs |-> Append(reg.subs[d], room_id)])
\* ConnectionManager.subscribe, for a connection in active_connections
SubscribeOp(reg, c, room_id) ==
  LET members == IF room_id \in DOMAIN reg.rooms THEN reg.rooms[room_id] ELSE {}
  IN  Reg(DictSet(reg.rooms, room_id, members \cup {c}),
          [reg.subs EXCEPT ![c] = Append(@, room_id)])

\* unsubscribe without "if not self.room_subscriptions[room_id]: del"
UnsubscribeOp_KeepKey(reg, c, room_id) ==
  LET rooms1 ==
        IF room_id \in DOMAIN reg.rooms
        THEN DictSet(reg.rooms, room_id, reg.rooms[room_id] \ {c})
        ELSE reg.rooms
      subs1 ==
        IF room_id \in SeqToSet(reg.subs[c])
        THEN [reg.subs EXCEPT ![c] = RemoveFirst(@, room_id)]
        ELSE reg.subs
  IN  Reg(rooms1, subs1)
\* ConnectionManager.unsubscribe, for a connection in active_connections
UnsubscribeOp(reg, c, room_id) ==
  LET rooms1 ==
        IF room_id \in DOMAIN reg.rooms
        THEN LET members == reg.rooms[room_id] \ {c}
             IN  IF members = {} THEN DictDel(reg.rooms, room_id)
                 ELSE DictSet(reg.rooms, room_id, members)
        ELSE reg.rooms
      subs1 ==
        IF room_id \in SeqToSet(reg.subs[c])
        THEN [reg.subs EXCEPT ![c] = RemoveFirst(@, room_id)]
        ELSE reg.subs
  IN  Reg(rooms1, subs1)

\* disconnect's loop: for room_id in conn_info.subscriptions[:]: unsubscribe
RECURSIVE UnsubscribeAll(_, _, _)
UnsubscribeAll(reg, c, todo) ==
  IF todo = <<>> THEN reg
  ELSE UnsubscribeAll(UnsubscribeOp(reg, c, Head(todo)), c, Tail(todo))

\* ------------------------------------------- continuations of a task
\* What a task does, without suspending, after a call returns or raises.
\* Each yields the set of task records the task can be in at its next
\* suspension point; ws is the key set of websockets at that moment.

Hung == \E k \in Tasks : task[k].pc = "spin"

Err500 == ErrorMessage(500)
Err400 == ErrorMessage(400)

\* send_personal_message(tgt, msg) up to its await of send_json; orElse is
\* what follows when the target has no socket entry (the early return)
CallSend(t, ctx, tgt, msg, ws, orElse) ==
  IF tgt \in ws
  THEN {[t EXCEPT !.pc = "send", !.ctx = ctx, !.tgt = tgt, !.msg = msg,
                  !.during = FALSE]}
  ELSE orElse

\* the top of the dispatcher's "while True": receive_json raises RuntimeError
\* at once when the server has already sent a close on this socket, the
\* inner handler then sends an error 500; with the socket entry gone that
\* send returns at once too and the loop never suspends again
EnterRecv(t, c, ws) ==
  LET t0 == [t EXCEPT !.ctx = None, !.tgt = None, !.msg = PongMessage,
                      !.rest = {}, !.cause = None, !.during = FALSE]
  IN  IF sock[c] = "closed"
      THEN CallSend(t0, "err_reply", c, Err500, ws, {[t0 EXCEPT !.pc = "spin"]})
      ELSE {[t0 EXCEPT !.pc = "recv"]}

\* broadcast bookkeeping: who of the snapshot stayed registered and
\* subscribed for the whole broadcast and was not sent the message
BcastCtx == {"bcast", "bus_room", "bus_presence", "api"}
EndBcast(t) ==
  IF t.ctx \in BcastCtx
  THEN [t EXCEPT !.missed = (t.stay \ {t.excl}) \ t.deliv]
  ELSE t

\* the pub/sub listener waits for its next message
BusIdle(t) ==
  [t EXCEPT !.pc = "idle", !.ctx = None, !.tgt = None, !.msg = PongMessage,
            !.rest = {}, !.cause = None, !.during = FALSE]

\* a disconnect(c) is between its unsubscribe loop and its two deletes
Cleaning(c) ==
  \E j \in Tasks : task[j].pc \in {"d_setex", "d_publish"} /\ task[j].tgt = c

\* the loop of broadcast_to_room over its snapshot (set order is arbitrary),
\* and of the listener over list(websockets.keys()) (insertion order);
\* a target without a socket entry is skipped by send_personal_message;
\* "during" notes that the target's disconnect was under way at the call
FirstIn(s, S) ==
  s[CHOOSE i \in 1..Len(s) : s[i] \in S /\ \A j \in 1..(i-1) : s[j] \notin S]
\* the loop without its "if connection_id != exclude"
NextTarget_NoExclude(t, k, ws, order) ==
  LET cand == t.rest \cap ws
      picks == IF t.ctx = "bus_presence" THEN {FirstIn(order, cand)} ELSE cand
  IN  IF cand = {}
      THEN IF k \in ConnIds THEN EnterRecv(EndBcast(t), k, ws)
           ELSE {BusIdle(EndBcast(t))}
      ELSE {[t EXCEPT !.pc = "send", !.tgt = x, !.rest = cand \ {x},
                      !.during = Cleaning(x)] : x \in picks}
\* the room loop sending without looking the socket entry up
NextTarget_NoSocketCheck(t, k, ws, order) ==
  LET cand == IF t.ctx = "bus_presence" THEN (t.rest \cap ws) \ {t.excl}
              ELSE t.rest \ {t.excl}
      picks == IF t.ctx = "bus_presence" THEN {FirstIn(order, cand)} ELSE cand
  IN  IF cand = {}
      THEN IF k \in ConnIds THEN EnterRecv(EndBcast(t), k, ws)
           ELSE {BusIdle(EndBcast(t))}
      ELSE {[t EXCEPT !.pc = "send", !.tgt = x, !.rest = cand \ {x},
                      !.during = Cleaning(x)] : x \in picks}
NextTarget(t, k, ws, order) ==
  LET cand == (t.rest \cap ws) \ {t.excl}
      picks == IF t.ctx = "bus_presence" THEN {FirstIn(order, cand)} ELSE cand
  IN  IF cand = {}
      THEN IF k \in ConnIds THEN EnterRecv(EndBcast(t), k, ws)
           ELSE {BusIdle(EndBcast(t))}
      ELSE {[t EXCEPT !.pc = "send", !.tgt = x, !.rest = cand \ {x},
                      !.during = Cleaning(x)] : x \in picks}

\* broadcast_to_room(room_id, msg, exclude); bno counts the room broadcasts
\* the task has issued
BroadcastToRoom(t, k, ctx, room_id, msg, exclude, rooms, ws, order) ==
  IF room_id \notin DOMAIN rooms
  THEN IF k \in ConnIds THEN EnterRecv(t, k, ws) ELSE {BusIdle(t)}
  ELSE LET subscribers == rooms[room_id]
       IN  NextTarget([t EXCEPT !.ctx = ctx, !.msg = msg, !.excl = exclude,
                                !.rest = subscribers, !.room = room_id,
                                !.snap = subscribers, !.deliv = {},
                                !.stay = subscribers \cap active_connections,
                                !.missed = {}, !.bno = @ + 1],
                      k, ws, order)

\* send_personal_message has returned to its caller
AfterSend(t, k, ws, order) ==
  IF t.ctx \in BcastCtx
  THEN NextTarget(t, k, ws, order)
  ELSE EnterRecv([t EXCEPT !.hb = (t.hb \/ t.ctx = "init_pong")], k, ws)

\* an exception leaves send_personal_message (raised by the disconnect in its
\* handler): the dispatcher's inner handler answers with an error 500, its
\* outer handler closes with 1011, the listener (like any caller outside a
\* dispatcher) logs and goes on
\* the listener ending with the exception its handler should have logged
AfterRaise_Uncaught(t, k, ws) ==
  IF k \notin ConnIds THEN {[t EXCEPT !.pc = "dead"]}
  ELSE IF t.ctx \in {"reply", "bcast"}
  THEN CallSend([EndBcast(t) EXCEPT !.cause = t.tgt], "err_reply", k, Err500,
                ws, EnterRecv(EndBcast(t), k, ws))
  ELSE IF t.ctx = "finally" THEN {[t EXCEPT !.pc = "done"]}
  ELSE {[t EXCEPT !.pc = "close"]}
\* "caught" counts the exceptions logged by the listener's handler
AfterRaise(t, k, ws) ==
  IF k \notin ConnIds THEN {BusIdle([EndBcast(t) EXCEPT !.caught = @ + 1])}
  ELSE IF t.ctx \in {"reply", "bcast"}
  THEN CallSend([EndBcast(t) EXCEPT !.cause = t.tgt], "err_reply", k, Err500,
                ws, EnterRecv(EndBcast(t), k, ws))
  ELSE IF t.ctx = "finally" THEN {[t EXCEPT !.pc = "done"]}
  ELSE {[t EXCEPT !.pc = "close"]}

\* ------------------------------------------------------------- helpers

StayDrop(tk, c) == [k \in Tasks |-> [tk[k] EXCEPT !.stay = @ \ {c}]]
StayDropRoom(tk, c, room_id) ==
  [k \in Tasks |-> IF tk[k].room = room_id
                   THEN [tk[k] EXCEPT !.stay = @ \ {c}] ELSE tk[k]]

\* asyncio.create_task(heartbeat_checker()) once the initial pong is through
WdAfter(c, nt) ==
  IF nt.hb /\ ~task[c].hb THEN [wd EXCEPT ![c].pc = "created"] ELSE wd

\* await websocket.close(code=1011): the close is sent when the call is made
SockAfter(c, nt) ==
  IF nt.pc = "close" /\ sock[c] # "closed"
  THEN [sock EXCEPT ![c] = "closed"] ELSE sock
CodeAfter(c, nt) ==
  IF nt.pc = "close" /\ sock[c] # "closed"
  THEN [close_code EXCEPT ![c] = 1011] ELSE close_code

\* a Redis command of task k raised inside connect or disconnect: where the
\* exception takes the task, and the 1011 close if it reaches the endpoint's
\* outer handler
RaiseOut(k) ==
  \E nt \in AfterRaise(task[k], k, WsKeys) :
     /\ task' = [task EXCEPT ![k] = nt]
     /\ sock' = IF k \in ConnIds THEN SockAfter(k, nt) ELSE sock
     /\ close_code' = IF k \in ConnIds THEN CodeAfter(k, nt) ELSE close_code

\* a Redis command raised while the dispatcher handles a frame: its inner
\* "except Exception" answers with an error 500 and the loop goes on
StoreRaised(t, c, ws) ==
  CallSend(t, "err_reply", c, Err500, ws, EnterRecv(t, c, ws))

\* the status rewritten with the record's old last_seen and expiry
PresenceWrite_NoRefresh(user_id, status, c) ==
  [presence EXCEPT ![user_id] =
     [@ EXCEPT !.status = status, !.connection_id = c]]
\* the record kept twice as long as PRESENCE_TTL
PresenceWrite_DoubleTtl(user_id, status, c) ==
  [presence EXCEPT ![user_id] =
     [status |-> status, connection_id |-> c, last_seen |-> now,
      expires |-> now + 2 * PRESENCE_TTL]]
\* update_presence: SETEX presence:<user_id> PRESENCE_TTL <record>
PresenceWrite(user_id, status, c) ==
  [presence EXCEPT ![user_id] =
     [status |-> status, connection_id |-> c, last_seen |-> now,
      expires |-> now + PRESENCE_TTL]]

\* redis_client.get("presence:<user_id>"): a key is gone once its TTL is over
RedisGet(user_id) ==
  IF presence[user_id].status = "absent" \/ now >= presence[user_id].expires
  THEN NoPresence ELSE presence[user_id]

\* GET /presence/{user_id}
get_user_presence(user_id) ==
  LET presence_data == RedisGet(user_id)
  IN  IF presence_data = NoPresence
      THEN [user_id |-> user_id, status |-> "offline", last_seen |-> None]
      ELSE [user_id |-> user_id, status |-> presence_data.status,
            last_seen |-> presence_data.last_seen]

\* ------------------------------------------------------------- connect

\* a bearer credential: a JWT with its two claims, whether its signature is
\* the issuer's and whether its exp is over; anything else is not a JWT
Token(sub, preferred_username) ==
  [wellformed |-> TRUE, sub |-> sub, preferred_username |-> preferred_username,
   signed |-> TRUE, expired |-> FALSE]
Tokens ==
  {Token(u, u) : u \in Users} \cup
  {[Token("u1", "u1") EXCEPT !.signed = FALSE],
   [Token("u2", "u2") EXCEPT !.expired = TRUE],
   Token("u1", None),
   [Token(None, None) EXCEPT !.wellformed = FALSE]}

\* jwt.decode(token, options={"verify_signature": False}) raises only on a
\* token it cannot decode (and with the signature unverified PyJWT leaves exp
\* unverified too); a payload without sub or preferred_username is rejected.
\* The result is the user_id, None for the HTTPException
verify_websocket_token(token) ==
  IF token.wellformed /\ token.sub # None /\ token.preferred_username # None
  THEN token.sub ELSE None

\* the rejection with the connection entered in the Registry all the same
AuthFailed_Registered(c) ==
  /\ task' = [task EXCEPT ![c].pc = "done"]
  /\ sock' = [sock EXCEPT ![c] = "closed"]
  /\ close_code' = [close_code EXCEPT ![c] = 1008]
  /\ hist' = [hist EXCEPT ![c].closed_by = "auth"]
  /\ active_connections' = active_connections \cup {c}
  /\ websockets' = Append(websockets, c)
  /\ UNCHANGED <<conn_user, last_heartbeat, subscriptions, room_subscriptions>>
\* "except HTTPException": websocket.close(code=1008); connection_id is still
\* None, so the finally block does nothing
AuthFailed(c) ==
  /\ task' = [task EXCEPT ![c].pc = "done"]
  /\ sock' = [sock EXCEPT ![c] = "closed"]
  /\ close_code' = [close_code EXCEPT ![c] = 1008]
  /\ hist' = [hist EXCEPT ![c].closed_by = "auth"]
  /\ UNCHANGED registry

\* websocket_endpoint up to connect's await of websocket.accept()
Handshake(c, token) ==
  LET user_id == verify_websocket_token(token)
  IN
  /\ ~Hung
  /\ task[c].pc = "new"
  /\ \A d \in ConnIds : ConnIndex(d) < ConnIndex(c) => task[d].pc # "new"
  /\ budget.conns > 0
  /\ budget' = [budget EXCEPT !.conns = @ - 1]
  /\ IF user_id = None
     THEN AuthFailed(c)
     ELSE /\ task' = [task EXCEPT ![c].pc = "accept", ![c].user = user_id]
          /\ sock' = [sock EXCEPT ![c] = "open"]
          /\ hist' = [hist EXCEPT ![c].unverified =
                                    ~(token.signed /\ ~token.expired)]
          /\ UNCHANGED <<close_code, registry>>
  /\ UNCHANGED <<store, wd, now, handled>>

\* connect: the registration, up to update_presence's await of SETEX
AcceptDone(c) ==
  /\ ~Hung
  /\ task[c].pc = "accept"
  /\ active_connections' = active_connections \cup {c}
  /\ conn_user' = [conn_user EXCEPT ![c] = task[c].user]
  /\ last_heartbeat' = [last_heartbeat EXCEPT ![c] = now]
  /\ subscriptions' = [subscriptions EXCEPT ![c] = <<>>]
  /\ websockets' = Append(websockets, c)
  /\ task' = [task EXCEPT ![c].pc = "c_setex"]
  /\ UNCHANGED <<room_subscriptions, store, sock, close_code, wd, now, budget,
                 handled, hist>>

\* connect: presence written online, up to broadcast_presence's PUBLISH;
\* with Redis unreachable the SETEX raises, the exception leaves connect and
\* the endpoint's outer handler closes with 1011
ConnSetexDone(c) ==
  /\ ~Hung
  /\ task[c].pc = "c_setex"
  /\ IF redis_up
     THEN /\ presence' = PresenceWrite(task[c].user, "online", c)
          /\ task' = [task EXCEPT ![c].pc = "c_publish"]
          /\ UNCHANGED <<sock, close_code>>
     ELSE RaiseOut(c) /\ UNCHANGED presence
  /\ UNCHANGED <<registry, typing, bus, published, redis_up, wd, now, budget,
                 handled, hist>>

\* the PUBLISH done, connect returns its connection_id and the endpoint
\* sends the initial pong; with Redis unreachable the PUBLISH raises
ConnPublishDone(c) ==
  /\ ~Hung
  /\ task[c].pc = "c_publish"
  /\ IF redis_up
     THEN /\ bus' = Append(bus, PresenceBroadcast(task[c].user, "online"))
          /\ published' = published \cup
               {<<"presence:updates", PresenceBroadcast(task[c].user, "online")>>}
          /\ \E nt \in CallSend([task[c] EXCEPT !.cid = TRUE], "init_pong", c,
                                PongMessage, WsKeys,
                                EnterRecv([task[c] EXCEPT !.hb = TRUE,
                                                          !.cid = TRUE],
                                          c, WsKeys)) :
               /\ task' = [task EXCEPT ![c] = nt]
               /\ wd' = WdAfter(c, nt)
          /\ UNCHANGED <<sock, close_code>>
     ELSE RaiseOut(c) /\ UNCHANGED <<bus, published, wd>>
  /\ UNCHANGED <<registry, presence, typing, redis_up, now, budget,
                 handled, hist>>

\* ------------------------------------------- send and disconnect

\* disconnect(c) from its membership test to update_presence's SETEX: the
\* registry after "for room_id in conn_info.subscriptions[:]: unsubscribe"
DisconnectReg(c) == UnsubscribeAll(CurReg, c, subscriptions[c])

\* a socket hands the frames to its peer in the order they were sent; the
\* log keeps, per frame of a room broadcast, the sending task and the number
\* of the broadcast among those the task issued
RoomCtx == {"bcast", "bus_room", "api"}
Deliver_NewestFirst(log, k, n) == <<<<k, n>>>> \o log
Deliver(log, k, n) == Append(log, <<k, n>>)

\* the send_json awaited by send_personal_message completes: the frame is
\* delivered on an open socket; on any other it raises and the handler
\* calls disconnect(tgt)
SendDone(k) ==
  LET t == task[k]
      c == t.tgt
  IN
  /\ ~Hung
  /\ t.pc = "send"
  /\ IF sock[c] = "open"
     THEN /\ \E nt \in AfterSend([t EXCEPT !.deliv =
                                    IF t.ctx \in BcastCtx THEN @ \cup {c} ELSE @],
                                 k, WsKeys, websockets) :
               /\ task' = [task EXCEPT ![k] = nt]
               /\ wd' = IF k \in ConnIds THEN WdAfter(k, nt) ELSE wd
          /\ handled' =
               IF t.ctx \in {"reply", "err_reply"}
               THEN [handled EXCEPT ![c].replies = Append(@, t.msg)]
               ELSE handled
          /\ hist' =
               IF t.msg.type = "error" /\ t.cause \notin {None, c}
               THEN [hist EXCEPT ![c].err_from = t.cause]
               ELSE IF t.msg.type = "typing" /\ t.ctx = "bcast"
               THEN [hist EXCEPT ![c].typing_rcvd = Append(@, k),
                                 ![c].rcvd = Deliver(@, k, t.bno)]
               ELSE IF t.ctx \in RoomCtx
               THEN [hist EXCEPT ![c].rcvd = Deliver(@, k, t.bno)]
               ELSE hist
          /\ UNCHANGED <<room_subscriptions, subscriptions>>
     ELSE /\ IF c \in active_connections
             THEN /\ room_subscriptions' = DisconnectReg(c).rooms
                  /\ subscriptions' = DisconnectReg(c).subs
                  /\ task' = [StayDrop(task, c) EXCEPT ![k].pc = "d_setex",
                                                       ![k].stay = @ \ {c}]
                  /\ wd' = wd
             ELSE /\ \E nt \in AfterSend(t, k, WsKeys, websockets) :
                       /\ task' = [task EXCEPT ![k] = nt]
                       /\ wd' = IF k \in ConnIds THEN WdAfter(k, nt) ELSE wd
                  /\ UNCHANGED <<room_subscriptions, subscriptions>>
          /\ hist' = [hist EXCEPT ![c].send_failed = TRUE]
          /\ UNCHANGED handled
  /\ UNCHANGED <<active_connections, conn_user, last_heartbeat, websockets,
                 store, sock, close_code, now, budget>>

\* disconnect: presence written offline, up to broadcast_presence's PUBLISH;
\* with Redis unreachable the SETEX raises and the exception leaves
\* disconnect before its two deletes
DiscSetexDone(k) ==
  LET c == task[k].tgt
  IN
  /\ ~Hung
  /\ task[k].pc = "d_setex"
  /\ IF redis_up
     THEN /\ presence' = PresenceWrite(conn_user[c], "offline", c)
          /\ hist' = [hist EXCEPT ![c].offline_writes = @ + 1]
          /\ task' = [task EXCEPT ![k].pc = "d_publish"]
          /\ UNCHANGED <<sock, close_code>>
     ELSE RaiseOut(k) /\ UNCHANGED <<presence, hist>>
  /\ UNCHANGED <<registry, typing, bus, published, redis_up, wd, now, budget,
                 handled>>

\* disconnect: offline published, then "del active_connections[c]" and
\* "del websockets[c]"; the first del raises KeyError when another
\* disconnect(c) removed the entry in the meantime; with Redis unreachable
\* the PUBLISH raises and neither del is reached
DiscPublishDone(k) ==
  LET t == task[k]
      c == t.tgt
  IN
  /\ ~Hung
  /\ t.pc = "d_publish"
  /\ bus' = IF redis_up
            THEN Append(bus, PresenceBroadcast(conn_user[c], "offline"))
            ELSE bus
  /\ published' = IF redis_up
                  THEN published \cup {<<"presence:updates",
                                         PresenceBroadcast(conn_user[c], "offline")>>}
                  ELSE published
  /\ IF ~redis_up
     THEN RaiseOut(k) /\ UNCHANGED <<active_connections, websockets, hist, wd>>
     ELSE IF c \in active_connections
     THEN /\ active_connections' = active_connections \ {c}
          /\ websockets' = RemoveKey(websockets, c)
          /\ hist' = [hist EXCEPT ![c].offline_pubs = @ + 1,
                                  ![c].removals = @ + 1]
          /\ \E nt \in (IF t.ctx = "finally" THEN {[t EXCEPT !.pc = "done"]}
                        ELSE AfterSend(t, k, WsKeys \ {c}, RemoveKey(websockets, c))) :
               /\ task' = [StayDrop(task, c) EXCEPT ![k] = [nt EXCEPT !.stay = @ \ {c}]]
               /\ wd' = IF k \in ConnIds THEN WdAfter(k, nt) ELSE wd
               /\ UNCHANGED <<sock, close_code>>
     ELSE /\ UNCHANGED <<active_connections, websockets>>
          /\ hist' = [hist EXCEPT ![c].offline_pubs = @ + 1,
                                  ![c].keyerror = TRUE]
          /\ \E nt \in AfterRaise(t, k, WsKeys) :
               /\ task' = [task EXCEPT ![k] = nt]
               /\ sock' = IF k \in ConnIds THEN SockAfter(k, nt) ELSE sock
               /\ close_code' = IF k \in ConnIds THEN CodeAfter(k, nt) ELSE close_code
               /\ wd' = wd
  /\ UNCHANGED <<conn_user, last_heartbeat, subscriptions, room_subscriptions,
                 presence, typing, redis_up, now, budget, handled>>

\* the finally block of websocket_endpoint: if connect has returned a
\* connection_id, cancel the heartbeat task, then disconnect(connection_id)
\* up to its first await
Finally(c) ==
  /\ wd' = IF task[c].cid /\ task[c].hb /\ wd[c].pc \in {"created", "sleep"}
           THEN [wd EXCEPT ![c].pc = "cancelled"] ELSE wd
  /\ IF task[c].cid /\ c \in active_connections
     THEN /\ room_subscriptions' = DisconnectReg(c).rooms
          /\ subscriptions' = DisconnectReg(c).subs
          /\ task' = [StayDrop(task, c) EXCEPT ![c].pc = "d_setex",
                                                ![c].ctx = "finally",
                                                ![c].tgt = c,
                                                ![c].stay = @ \ {c}]
     ELSE /\ task' = [task EXCEPT ![c].pc = "done"]
          /\ UNCHANGED <<room_subscriptions, subscriptions>>

\* receive_json raises WebSocketDisconnect: the peer is gone or the server
\* has closed the socket; the loop breaks and the finally block runs
RecvDisconnect(c) ==
  /\ ~Hung
  /\ task[c].pc = "recv"
  /\ sock[c] \in {"broken", "closed"}
  /\ Finally(c)
  /\ UNCHANGED <<active_connections, conn_user, last_heartbeat, websockets,
                 store, sock, close_code, now, budget, handled, hist>>

\* the websocket.close(code=1011) of the outer handler returns; finally runs
CloseDone(c) ==
  /\ ~Hung
  /\ task[c].pc = "close"
  /\ Finally(c)
  /\ UNCHANGED <<active_connections, conn_user, last_heartbeat, websockets,
                 store, sock, close_code, now, budget, handled, hist>>

\* ------------------------------------------------------------- frames

\* the test leaving out "if connection_id not in self.active_connections"
Known_Always(c) == TRUE
\* subscribe, unsubscribe and update_heartbeat act only on a connection_id
\* that is in active_connections
Known(c) == c \in active_connections

\* WSMessage(**data) accepts a frame only if its type is in MessageType
ValidType(frame) == frame.type \in MessageType

\* One pass of the message handling loop, from receive_json returning a
\* frame to the next await.
RecvFrame(c, frame) ==
  LET t == task[c]
      room_id == RoomIdOf(frame)
      reg1 ==
        IF ~Known(c) \/ room_id = NoId THEN CurReg
        ELSE IF frame.type = "subscribe" THEN SubscribeOp(CurReg, c, room_id)
        ELSE IF frame.type = "unsubscribe" THEN UnsubscribeOp(CurReg, c, room_id)
        ELSE CurReg
      next ==
        IF ~ValidType(frame)
        THEN CallSend(t, "err_reply", c, Err500, WsKeys, EnterRecv(t, c, WsKeys))
        ELSE IF frame.type = "subscribe"
        THEN IF room_id # NoId
             THEN CallSend(t, "reply", c,
                           SubscribedMessage(frame.channel_id, frame.dm_id),
                           WsKeys, EnterRecv(t, c, WsKeys))
             ELSE EnterRecv(t, c, WsKeys)
        ELSE IF frame.type = "unsubscribe"
        THEN IF room_id # NoId
             THEN CallSend(t, "reply", c,
                           UnsubscribedMessage(frame.channel_id, frame.dm_id),
                           WsKeys, EnterRecv(t, c, WsKeys))
             ELSE EnterRecv(t, c, WsKeys)
        ELSE IF frame.type = "typing"
        THEN IF room_id # NoId
             THEN {[t EXCEPT !.pc = "t_setex", !.room = room_id]}
             ELSE EnterRecv(t, c, WsKeys)
        ELSE IF frame.type = "ping"
        THEN IF Known(c)
             THEN {[t EXCEPT !.pc = "hb_setex"]}
             ELSE CallSend(t, "reply", c, PongMessage, WsKeys,
                           EnterRecv(t, c, WsKeys))
        ELSE CallSend(t, "reply", c, Err400, WsKeys, EnterRecv(t, c, WsKeys))
  IN
  /\ ~Hung
  /\ t.pc = "recv"
  /\ sock[c] \in {"open", "broken"}
  /\ budget.frames > 0
  /\ budget' = [budget EXCEPT !.frames = @ - 1]
  /\ room_subscriptions' = reg1.rooms
  /\ subscriptions' = reg1.subs
  /\ last_heartbeat' =
       IF frame.type = "ping" /\ c \in active_connections
       THEN [last_heartbeat EXCEPT ![c] = now] ELSE last_heartbeat
  /\ handled' = [handled EXCEPT ![c] =
                   [NoHandled EXCEPT !.frame = frame, !.reg = (reg1 # CurReg),
                                     !.gone = (hist[c].removals > 0),
                                     !.live = (c \in active_connections),
                                     !.at = now]]
  /\ \E nt \in next :
       task' = [(IF frame.type = "unsubscribe" /\ reg1 # CurReg
                 THEN StayDropRoom(task, c, room_id) ELSE task)
                EXCEPT ![c] = nt]
  /\ hist' = IF frame.type = "typing" /\ room_id # NoId
              THEN [hist EXCEPT ![c].typing_sent = @ + 1] ELSE hist
  /\ UNCHANGED <<active_connections, conn_user, websockets, store, sock,
                 close_code, wd, now>>

\* update_heartbeat: presence rewritten online; the endpoint sends the pong
\* (with Redis unreachable the SETEX raises and no pong is sent)
HbSetexDone(c) ==
  /\ ~Hung
  /\ task[c].pc = "hb_setex"
  /\ presence' = IF redis_up THEN PresenceWrite(conn_user[c], "online", c)
                 ELSE presence
  /\ handled' = [handled EXCEPT ![c].failed = ~redis_up]
  /\ \E nt \in (IF redis_up
                THEN CallSend(task[c], "reply", c, PongMessage, WsKeys,
                              EnterRecv(task[c], c, WsKeys))
                ELSE StoreRaised(task[c], c, WsKeys)) :
       task' = [task EXCEPT ![c] = nt]
  /\ UNCHANGED <<registry, typing, bus, published, redis_up, sock, close_code,
                 wd, now, budget, hist>>

\* update_typing: the typing key written, then broadcast_to_room(room_id,
\* TypingBroadcast) with no exclude; with Redis unreachable the SETEX raises
\* and update_typing is left before its broadcast
TypingSetexDone(c) ==
  LET t == task[c]
  IN
  /\ ~Hung
  /\ t.pc = "t_setex"
  /\ typing' = IF redis_up
               THEN [typing EXCEPT ![<<t.room, t.user>>] = now + TYPING_TTL]
               ELSE typing
  /\ handled' = [handled EXCEPT ![c].store = redis_up, ![c].bcast = redis_up,
                                ![c].failed = ~redis_up]
  /\ \E nt \in (IF redis_up
                THEN BroadcastToRoom(t, c, "bcast", t.room,
                                     TypingBroadcast(t.room, t.user), None,
                                     room_subscriptions, WsKeys, websockets)
                ELSE StoreRaised(t, c, WsKeys)) :
       task' = [task EXCEPT ![c] = nt]
  /\ UNCHANGED <<registry, presence, bus, published, redis_up, sock,
                 close_code, wd, now, budget,
                 hist>>

\* ------------------------------------------------------------- the bus

\* one pass of "async for message in self.pubsub.listen()"
BusRecv ==
  LET m == Head(bus)
      t == task[BUS]
      next ==
        IF m.type = "presence"
        THEN NextTarget([t EXCEPT !.ctx = "bus_presence", !.msg = m,
                                  !.excl = None, !.rest = WsKeys,
                                  !.room = NoId, !.snap = WsKeys,
                                  !.deliv = {}, !.missed = {},
                                  !.stay = WsKeys \cap active_connections],
                        BUS, WsKeys, websockets)
        ELSE IF m.room_id # NoId
        THEN BroadcastToRoom(t, BUS, "bus_room", m.room_id, m, None,
                             room_subscriptions, WsKeys, websockets)
        ELSE {BusIdle(t)}
  IN
  /\ ~Hung
  /\ t.pc = "idle"
  /\ redis_up
  /\ bus # <<>>
  /\ bus' = Tail(bus)
  /\ \E nt \in next : task' = [task EXCEPT ![BUS] = nt]
  /\ UNCHANGED <<registry, presence, typing, published, redis_up, sock,
                 close_code, wd, now,
                 budget, handled, hist>>

\* pubsub.listen() raises once Redis is unreachable: the exception is raised
\* outside the loop's try, the listener task ends and nothing restarts it
ListenerDies ==
  /\ ~Hung
  /\ task[BUS].pc = "idle"
  /\ ~redis_up
  /\ task' = [task EXCEPT ![BUS].pc = "dead"]
  /\ UNCHANGED <<registry, store, sock, close_code, wd, now, budget, handled,
                 hist>>

\* another service publishes on "message:broadcast"
ExtPublish(room_id) ==
  /\ ~Hung
  /\ redis_up
  /\ budget.external > 0
  /\ budget' = [budget EXCEPT !.external = @ - 1]
  /\ bus' = Append(bus, MessageBroadcast(room_id))
  /\ UNCHANGED <<registry, presence, typing, published, redis_up, sock,
                 close_code, task, wd, now,
                 handled, hist>>

\* ------------------------------------------------------- environment

\* the peer goes away (it closes, or the transport fails): sends on the
\* socket fail from now on; frames already received can still be read
SockBreak(c) ==
  /\ ~Hung
  /\ sock[c] = "open"
  /\ budget.breaks > 0
  /\ budget' = [budget EXCEPT !.breaks = @ - 1]
  /\ sock' = [sock EXCEPT ![c] = "broken"]
  /\ hist' = [hist EXCEPT ![c].broke = @ \/ c \in active_connections]
  /\ UNCHANGED <<registry, store, close_code, task, wd, now, handled>>

\* Redis becomes unreachable and stays so: every command sent to it from
\* now on raises
RedisFail ==
  /\ ~Hung
  /\ redis_up
  /\ budget.outages > 0
  /\ budget' = [budget EXCEPT !.outages = @ - 1]
  /\ redis_up' = FALSE
  /\ UNCHANGED <<registry, presence, typing, bus, published, sock, close_code,
                 task, wd, now, handled, hist>>

Tick ==
  /\ ~Hung
  /\ budget.ticks > 0
  /\ budget' = [budget EXCEPT !.ticks = @ - 1]
  /\ now' = now + budget.step
  /\ hist' = [c \in ConnIds |->
                IF c \in active_connections
                   /\ now + budget.step - last_heartbeat[c] >= HEARTBEAT_INTERVAL
                THEN [hist[c] EXCEPT !.late = TRUE] ELSE hist[c]]
  /\ UNCHANGED <<registry, store, sock, close_code, task, wd, handled>>

\* ---------------------------------------------------------- watchdog

\* the test with one interval of grace instead of two
TimedOut_OneInterval(c) == now - last_heartbeat[c] > HEARTBEAT_INTERVAL
\* the test with three intervals of grace
TimedOut_ThreeIntervals(c) == now - last_heartbeat[c] > HEARTBEAT_INTERVAL * 3
\* "time_since_heartbeat > HEARTBEAT_INTERVAL * 2"
TimedOut(c) == now - last_heartbeat[c] > HEARTBEAT_INTERVAL * 2

\* the watchdog never seeing that its connection is gone
Gone_Never(c) == FALSE
\* "while connection_id in connection_manager.active_connections" and
\* "if connection_id not in connection_manager.active_connections: break"
Gone(c) == c \notin active_connections

\* heartbeat_checker starts: the loop test, then asyncio.sleep
WdStart(c) ==
  /\ ~Hung
  /\ wd[c].pc = "created"
  /\ wd' = [wd EXCEPT ![c] =
              IF ~Gone(c)
              THEN [pc |-> "sleep", wake |-> now + HEARTBEAT_INTERVAL,
                    woke |-> FALSE]
              ELSE [pc |-> "done", wake |-> 0, woke |-> FALSE]]
  /\ UNCHANGED <<registry, store, sock, close_code, task, now, budget,
                 handled, hist>>

\* the sleep ended when it was due, one interval after the wake-up before
OnTime(c) == wd[c].woke /\ now = wd[c].wake

\* heartbeat_checker wakes up ("woke" notes that it has been through the
\* loop body before): it ends when the connection is gone, closes
\* the socket with 1008 on a timeout, and sleeps again otherwise
WdWake(c) ==
  /\ ~Hung
  /\ wd[c].pc = "sleep"
  /\ now >= wd[c].wake
  /\ IF Gone(c)
     THEN /\ wd' = [wd EXCEPT ![c] = [pc |-> "done", wake |-> 0, woke |-> FALSE]]
          /\ UNCHANGED <<sock, close_code, hist>>
     ELSE IF TimedOut(c)
     THEN /\ wd' = [wd EXCEPT ![c] = [pc |-> "done", wake |-> 0, woke |-> FALSE]]
          /\ IF sock[c] = "closed"
             THEN UNCHANGED <<sock, close_code, hist>>
             ELSE /\ sock' = [sock EXCEPT ![c] = "closed"]
                  /\ close_code' = [close_code EXCEPT ![c] = 1008]
                  /\ hist' = [hist EXCEPT ![c].closed_by = "watchdog",
                                          ![c].close_gap = now - last_heartbeat[c],
                                          ![c].punctual = OnTime(c)]
     ELSE /\ wd' = [wd EXCEPT ![c].wake = now + HEARTBEAT_INTERVAL,
                            ![c].woke = TRUE]
          /\ UNCHANGED <<sock, close_code, hist>>
  /\ UNCHANGED <<registry, store, task, now, budget, handled>>

\* ------------------------------------------------------ specification

Next ==
  \/ \E c \in ConnIds, token \in Tokens : Handshake(c, token)
  \/ \E c \in ConnIds : AcceptDone(c)
  \/ \E c \in ConnIds : ConnSetexDone(c)
  \/ \E c \in ConnIds : ConnPublishDone(c)
  \/ \E k \in Tasks : SendDone(k)
  \/ \E k \in Tasks : DiscSetexDone(k)
  \/ \E k \in Tasks : DiscPublishDone(k)
  \/ \E c \in ConnIds : RecvDisconnect(c)
  \/ \E c \in ConnIds : CloseDone(c)
  \/ \E c \in ConnIds, frame \in Frames : RecvFrame(c, frame)
  \/ \E c \in ConnIds : HbSetexDone(c)
  \/ \E c \in ConnIds : TypingSetexDone(c)
  \/ BusRecv
  \/ ListenerDies
  \/ \E room_id \in RoomIds \cup {NoId} : ExtPublish(room_id)
  \/ \E c \in ConnIds : SockBreak(c)
  \/ RedisFail
  \/ Tick
  \/ \E c \in ConnIds : WdStart(c)
  \/ \E c \in ConnIds : WdWake(c)

Spec == Init /\ [][Next]_vars

\* ------------------------------------- broadcast_to_room with exclude
\* No caller in the service passes exclude; here a caller outside the
\* dispatchers calls broadcast_to_room(room_id, message, exclude) while the
\* connections go on with their frames and disconnects.

ApiBroadcast(room_id, exclude) ==
  /\ ~Hung
  /\ task[API].pc = "idle"
  /\ budget.api > 0
  /\ budget' = [budget EXCEPT !.api = @ - 1]
  /\ \E nt \in BroadcastToRoom(task[API], API, "api", room_id,
                               MessageBroadcast(room_id), exclude,
                               room_subscriptions, WsKeys, websockets) :
       task' = [task EXCEPT ![API] = nt]
  /\ UNCHANGED <<registry, store, sock, close_code, wd, now, handled, hist>>

InitApi == Init \/ (Established /\ budget \in ApiScenarios)

NextApi ==
  \/ Next
  \/ \E room_id \in RoomIds, exclude \in ConnIds : ApiBroadcast(room_id, exclude)

SpecApi == InitApi /\ [][NextApi]_vars

\* --------------------------------------------------------------- claims

InRoom(c, room_id) ==
  room_id \in DOMAIN room_subscriptions /\ c \in room_subscriptions[room_id]
Registered(c) == c \in active_connections
\* the dispatcher of c has finished with the frame recorded in handled[c]
Answered(c) == task[c].pc = "recv"

\* C1: the Room Subscription Index equals the union of the registered
\* connections' own subscription lists: c is a member of room r if and only
\* if c is registered and r is in c's subscriptions.
C1_IndexEqualsSubscriptions ==
  \A c \in ConnIds, r \in RoomIds :
    InRoom(c, r) <=> (Registered(c) /\ r \in SeqToSet(subscriptions[c]))

\* C2: once a disconnect(c) has completed (it removed c from the Registry),
\* no member set of the Room Subscription Index contains c, then and later.
C2_NoMemberAfterDisconnect ==
  \A c \in ConnIds :
    hist[c].removals > 0 => \A r \in RoomIds : ~InRoom(c, r)

\* C3: overlapping disconnect(c) calls raise no error and have their cleanup
\* effects once: one removal, one offline write, one offline publication.
C3_DisconnectOnce ==
  \A c \in ConnIds :
    /\ ~hist[c].keyerror
    /\ hist[c].removals <= 1
    /\ hist[c].offline_writes <= 1
    /\ hist[c].offline_pubs <= 1

\* C4: no connection receives an Error frame because of a failure of another
\* connection (a failed send to it, its timeout, its racing disconnect).
C4_FailureIsolated ==
  \A c \in ConnIds : hist[c].err_from = None

\* C5: a room broadcast delivers the message to every connection of the
\* room that stays registered and subscribed for the whole broadcast.
C5_BroadcastReachesAll ==
  \A k \in Tasks : task[k].room # NoId => task[k].missed = {}

\* C6: broadcast_to_room(room_id, m, exclude = c) sends m to c at no point:
\* c is never the target of one of its sends and never among those it
\* delivered to, whatever c does meanwhile.
C6_ExcludedNeverSent ==
  \A k \in Tasks :
    task[k].excl # None
      => /\ task[k].excl \notin task[k].deliv
         /\ ~(task[k].pc = "send" /\ task[k].ctx \in BcastCtx
                /\ task[k].tgt = task[k].excl)
C6_Witness ==
  /\ task[API].pc = "idle"
  /\ task[API].excl # None
  /\ task[API].excl \in task[API].snap
  /\ task[API].deliv # {}
  /\ hist[task[API].excl].removals > 0

\* C7: a connection the watchdog has closed for its silence, and whose
\* dispatcher has ended, is in neither the Registry nor any room.
C7_TimeoutCleansUp ==
  \A c \in ConnIds :
    (hist[c].closed_by = "watchdog" /\ task[c].pc \in {"done", "spin"})
      => (~Registered(c) /\ \A r \in RoomIds : ~InRoom(c, r))

\* C8: the watchdog closes a connection only at a wake-up at which more than
\* 2 x HEARTBEAT_INTERVAL has passed since its last heartbeat; a connection
\* whose heartbeats were never HEARTBEAT_INTERVAL or more apart is not closed.
C8_WatchdogOnlyOnTimeout ==
  \A c \in ConnIds :
    hist[c].closed_by = "watchdog"
      => (hist[c].close_gap > 2 * HEARTBEAT_INTERVAL /\ hist[c].late)
C8_Witness ==
  \E c \in ConnIds :
    hist[c].closed_by = "watchdog" /\ close_code[c] = 1008 /\ ~Registered(c)

\* C9: a frame with an unrecognized type is answered with exactly one error
\* frame with a code of the 400 class and changes nothing in the Registry.
IsError4xx(m) == m.type = "error" /\ m.code >= 400 /\ m.code <= 499
C9_UnknownTypeAnswered400 ==
  \A c \in ConnIds :
    (handled[c].frame.type = "bogus" /\ Answered(c) /\ sock[c] = "open")
      => /\ Len(handled[c].replies) = 1
         /\ IsError4xx(handled[c].replies[1])
         /\ ~handled[c].reg

\* C10: a subscribe, unsubscribe or typing frame with both or neither of
\* channel_id and dm_id is answered with an Error frame and causes no Registry
\* change, no typing write and no broadcast.
Malformed(frame) ==
  /\ frame.type \in {"subscribe", "unsubscribe", "typing"}
  /\ (frame.channel_id = NoId) = (frame.dm_id = NoId)
C10_MalformedRejected ==
  \A c \in ConnIds :
    (Malformed(handled[c].frame) /\ Answered(c) /\ sock[c] = "open")
      => /\ \E i \in 1..Len(handled[c].replies) : handled[c].replies[i].type = "error"
         /\ ~handled[c].reg
         /\ ~handled[c].store
         /\ ~handled[c].bcast

\* C11: a typing frame handled on this instance reaches the room's subscribers
\* on another instance.  Another instance is told of events here only by
\* what this instance publishes (its listener forwards "presence:updates" to
\* all its sockets and "message:broadcast" to a room), so the typing
\* broadcast of a handled typing frame must have been published.
C11_TypingPublished ==
  \A c \in ConnIds :
    (handled[c].frame.type = "typing" /\ handled[c].bcast /\ Answered(c))
      => \E p \in published : p[2].type = "typing"

\* C12: one typing frame of connection B gives every other connection A of
\* the room exactly one typing frame of B: never more than B sent, also
\* after TYPING_TTL has elapsed, and one once B's broadcast is over and A was
\* registered and subscribed throughout.
CountOf(seq, x) == Cardinality({i \in 1..Len(seq) : seq[i] = x})
C12_OneTypingFrame ==
  \A a, b \in ConnIds :
    a # b =>
      /\ CountOf(hist[a].typing_rcvd, b) <= hist[b].typing_sent
      /\ (hist[b].typing_sent = 1 /\ Answered(b) /\ a \in task[b].stay)
           => CountOf(hist[a].typing_rcvd, b) = 1

\* C13: a presence record written online and not written again for
\* PRESENCE_TTL is reported offline by getPresence, with no disconnect needed;
\* whenever the user's key is absent from the store getPresence reports
\* offline.
C13_PresenceExpires ==
  \A u \in Users :
    /\ (presence[u].status = "online" /\ now - presence[u].last_seen >= PRESENCE_TTL)
         => get_user_presence(u).status = "offline"
    /\ RedisGet(u) = NoPresence => get_user_presence(u).status = "offline"
C13_Witness ==
  \E c \in ConnIds :
    /\ Registered(c) /\ hist[c].offline_writes = 0
    /\ presence[conn_user[c]].status = "online"
    /\ presence[conn_user[c]].connection_id = c
    /\ now - presence[conn_user[c]].last_seen >= PRESENCE_TTL
    /\ get_user_presence(conn_user[c]).status = "offline"

\* C14: a connection whose transport closed while it was registered, and
\* whose dispatcher has ended, has its heartbeat task stopped, is in neither
\* the Registry nor any room, and has had presence offline written and
\* published for its user; it stays so.
C14_CloseCleansUp ==
  \A c \in ConnIds :
    (hist[c].broke /\ task[c].pc = "done")
      => /\ wd[c].pc \notin {"created", "sleep"}
         /\ ~Registered(c) /\ c \notin WsKeys
         /\ \A r \in RoomIds : ~InRoom(c, r)
         /\ hist[c].offline_writes >= 1
         /\ hist[c].offline_pubs >= 1

\* C15: once the disconnect cleanup of c has begun, no room broadcast and no
\* global broadcast starts a send on c's socket.
C15_NoSendDuringCleanup ==
  \A k \in Tasks :
    ~(task[k].pc = "send" /\ task[k].ctx \in BcastCtx /\ task[k].during)

\* C16: the last presence value a connection leaves in the store is offline:
\* once its disconnect has written offline and everything done on its behalf
\* is over, the record it wrote last does not say online.
C16_LastPresenceOffline ==
  \A c \in ConnIds :
    (/\ hist[c].offline_writes > 0
     /\ ~Registered(c) /\ task[c].pc = "done" /\ ~Cleaning(c)
     /\ presence[conn_user[c]].connection_id = c)
      => presence[conn_user[c]].status = "offline"

\* C17: a connection attempt whose credential the token verifier rejects is
\* closed with code 1008 and goes straight to CLOSED: it is in neither map of
\* the Registry, in no room, has no subscription, wrote no presence record and
\* published nothing (with no other connection attempted, the store and the
\* bus are untouched).
C17_RejectedLeavesNothing ==
  \A c \in ConnIds :
    hist[c].closed_by = "auth" =>
      /\ close_code[c] = 1008 /\ sock[c] = "closed" /\ task[c].pc = "done"
      /\ ~Registered(c) /\ c \notin WsKeys
      /\ subscriptions[c] = <<>>
      /\ \A r \in RoomIds : ~InRoom(c, r)
      /\ \A u \in Users : presence[u].connection_id # c
      /\ hist[c].offline_writes = 0 /\ hist[c].offline_pubs = 0
      /\ (\A d \in ConnIds \ {c} : task[d].pc = "new")
           => /\ presence = [u \in Users |-> NoPresence]
              /\ published = {} /\ bus = <<>>

C17_Witness ==
  \E c \in ConnIds :
    /\ hist[c].closed_by = "auth" /\ close_code[c] = 1008
    /\ \E d \in ConnIds \ {c} : Registered(d)

\* C18: a connection is registered, or writes presence, only if its
\* credential carried the issuer's signature and an expiry still ahead.
C18_OnlyVerifiedRegistered ==
  \A c \in ConnIds :
    (Registered(c) \/ \E u \in Users : presence[u].connection_id = c)
      => ~hist[c].unverified

\* C19: when the store is unreachable while a typing frame is handled, the
\* failing write is skipped: once the frame is dealt with, the
\* TypingBroadcast has still been handed to the room's local subscribers and
\* the sender is still registered and ACTIVE.
C19_TypingSurvivesOutage ==
  \A c \in ConnIds :
    (/\ handled[c].frame.type = "typing" /\ RoomIdOf(handled[c].frame) # NoId
     /\ handled[c].failed /\ Answered(c) /\ sock[c] = "open")
      => /\ handled[c].bcast
         /\ Registered(c) /\ c \in WsKeys

\* C20: when the store or bus is unreachable while a connection is set up or
\* torn down, the Registry stays consistent: a connection whose dispatcher
\* has finished is in neither active_connections nor websockets.
C20_ClosedIsUnregistered ==
  \A c \in ConnIds :
    (~redis_up /\ task[c].pc = "done") => (~Registered(c) /\ c \notin WsKeys)

\* C21: a failed send to c takes c through the disconnect path to CLOSED:
\* once that disconnect is over, c is in neither map of the Registry and in
\* no room, its presence has been written offline, and its dispatcher has
\* taken up no frame since the removal (Redis being reachable throughout).
C21_SendFailureCloses ==
  \A c \in ConnIds :
    (redis_up /\ hist[c].send_failed /\ ~Cleaning(c))
      => /\ ~Registered(c) /\ c \notin WsKeys
         /\ \A r \in RoomIds : ~InRoom(c, r)
         /\ hist[c].offline_writes >= 1
         /\ ~handled[c].gone

\* C22: an unexpected failure while the dispatcher handles a frame (here the
\* store raising under a ping or a typing frame) is fatal to the connection:
\* the dispatcher does not return to reading frames, and when it has
\* finished the socket was closed with code 1011.
C22_FailureIsFatal ==
  \A c \in ConnIds :
    handled[c].failed =>
      /\ ~Answered(c)
      /\ task[c].pc = "done" => close_code[c] = 1011

C24_PingKeepsStatus ==
  [][\A c \in ConnIds :
       (task[c].pc = "hb_setex" /\ task'[c].pc # "hb_setex" /\ redis_up
        /\ RedisGet(conn_user[c]) # NoPresence)
         => presence'[conn_user[c]].status = presence[conn_user[c]].status]_vars

\* C25: subscribe(c, r) and unsubscribe(c, r) are idempotent on the Registry:
\* from every reachable state, for every registered connection and room,
\* doing the operation twice leaves the same subscriptions of c and the same
\* Room Index as doing it once.
C25_SubscribeIdempotent ==
  \A c \in active_connections, r \in RoomIds :
    /\ SubscribeOp(SubscribeOp(CurReg, c, r), c, r) = SubscribeOp(CurReg, c, r)
    /\ UnsubscribeOp(UnsubscribeOp(CurReg, c, r), c, r) = UnsubscribeOp(CurReg, c, r)

\* C26: from every reachable state, after subscribe(c, r) by a registered
\* connection, once or twice, c is a member of the Room Index entry of r
\* and is there exactly once.
C26_OnceInRoomIndex ==
  \A c \in active_connections, r \in RoomIds :
    LET once == SubscribeOp(CurReg, c, r)
        twice == SubscribeOp(once, c, r)
    IN  /\ r \in DOMAIN once.rooms /\ r \in DOMAIN twice.rooms
        /\ Cardinality({x \in once.rooms[r] : x = c}) = 1
        /\ Cardinality({x \in twice.rooms[r] : x = c}) = 1
        /\ twice.rooms = once.rooms

C26_Witness ==
  \E c \in active_connections, r \in RoomIds :
    /\ CountOf(subscriptions[c], r) >= 2
    /\ InRoom(c, r) /\ Cardinality({x \in room_subscriptions[r] : x = c}) = 1

\* C27: an operation called with a connection_id that is not in the Registry
\* is a silent no-op. A subscribe, unsubscribe or ping frame handled for an
\* unregistered connection, a disconnect of one (from the finally block or
\* after a failed send) and a send to one leave the Registry, the Room Index
\* and the presence store as they were and raise nothing: the dispatcher
\* goes on to its next receive, or ends if it was in its finally block.
NoOpTypes == {"subscribe", "unsubscribe", "ping"}
C27_UnknownIdIsNoOp ==
  [][/\ \A c \in ConnIds, frame \in Frames :
          (RecvFrame(c, frame) /\ ~Registered(c) /\ frame.type \in NoOpTypes)
            => /\ registry' = registry /\ presence' = presence
               /\ task'[c].pc \in {"recv", "spin"}
               /\ close_code' = close_code
     /\ \A c \in ConnIds :
          ((RecvDisconnect(c) \/ CloseDone(c)) /\ ~Registered(c))
            => /\ registry' = registry /\ store' = store
               /\ task'[c].pc = "done"
     /\ \A k \in Tasks :
          (SendDone(k) /\ ~Registered(task[k].tgt))
            => /\ registry' = registry /\ store' = store
               /\ task'[k].pc \notin {"close", "d_setex"}]_vars

C27_Witness ==
  \E c \in ConnIds :
    /\ handled[c].gone /\ hist[c].removals = 1 /\ ~Registered(c)
    /\ handled[c].frame.type = "subscribe" /\ RoomIdOf(handled[c].frame) # NoId
    /\ task[c].pc = "done"
    /\ subscriptions[c] = <<>> /\ \A r \in RoomIds : ~InRoom(c, r)

\* C28: no key of the Room Subscription Index maps to an empty member set:
\* the room whose last member leaves is removed in the same step, and a key
\* exists only with a member.
C28_NoEmptyRoom ==
  \A r \in DOMAIN room_subscriptions : room_subscriptions[r] # {}

C28_Witness ==
  \E c \in ConnIds :
    /\ handled[c].frame.type = "unsubscribe" /\ handled[c].reg
    /\ RoomIdOf(handled[c].frame) \notin DOMAIN room_subscriptions
    /\ \E d \in ConnIds \ {c} : hist[d].removals = 1

PresenceToAll ==
  (task[BUS].pc = "idle" /\ task[BUS].room = NoId) => task[BUS].missed = {}
RoomOnlyToMembers ==
  task[BUS].ctx = "bus_room"
    => /\ task[BUS].deliv \subseteq task[BUS].snap
       /\ task[BUS].pc = "send" => task[BUS].tgt \in task[BUS].snap
C30_BusScoping ==
  [][/\ PresenceToAll' /\ RoomOnlyToMembers'
     /\ (/\ BusRecv /\ Head(bus).type # "presence"
         /\ Head(bus).room_id \notin DOMAIN room_subscriptions)
          => (task'[BUS].pc = "idle" /\ hist' = hist)]_vars

\* C31: once its connection is out of the Registry, the heartbeat watchdog
\* ends at its next step (its start or its next wake-up) and that step
\* closes no socket and changes nothing in the Registry.
C31_WatchdogEnds ==
  [][\A c \in ConnIds :
       ((WdStart(c) \/ WdWake(c)) /\ ~Registered(c))
         => /\ wd'[c].pc = "done"
            /\ sock' = sock /\ close_code' = close_code
            /\ registry' = registry]_vars

C31_Witness ==
  \E c \in ConnIds :
    /\ hist[c].removals = 1 /\ ~Registered(c)
    /\ wd[c].pc = "done" /\ now >= HEARTBEAT_INTERVAL
    /\ sock[c] = "broken" /\ close_code[c] = 0

\* C32: a subscribe frame with exactly one of channel_id / dm_id from a
\* registered connection makes it a member of that room and is answered with
\* exactly one subscribed frame echoing the id in the same field; such an
\* unsubscribe frame makes it a non-member and is answered with exactly one
\* unsubscribed frame, subscribed before or not.
OneId(frame) == (frame.channel_id = NoId) # (frame.dm_id = NoId)
C32_SubscribeAnswered ==
  \A c \in ConnIds :
    LET frame == handled[c].frame
    IN  (/\ frame.type \in {"subscribe", "unsubscribe"} /\ OneId(frame)
         /\ handled[c].live /\ Answered(c)
         /\ sock[c] = "open" /\ Registered(c) /\ ~Cleaning(c))
          => IF frame.type = "subscribe"
             THEN /\ InRoom(c, RoomIdOf(frame))
                  /\ handled[c].replies =
                       <<SubscribedMessage(frame.channel_id, frame.dm_id)>>
                  /\ handled[c].replies[1].type = "subscribed"
                  /\ handled[c].replies[1].channel_id = frame.channel_id
                  /\ handled[c].replies[1].dm_id = frame.dm_id
             ELSE /\ ~InRoom(c, RoomIdOf(frame))
                  /\ handled[c].replies =
                       <<UnsubscribedMessage(frame.channel_id, frame.dm_id)>>

C32_Witness ==
  \E c \in ConnIds :
    /\ handled[c].frame.type = "unsubscribe" /\ OneId(handled[c].frame)
    /\ handled[c].live /\ ~handled[c].reg /\ Answered(c)
    /\ sock[c] = "open" /\ Registered(c)
    /\ Len(handled[c].replies) = 1 /\ handled[c].replies[1].type = "unsubscribed"
    /\ \E d \in ConnIds :
         /\ handled[d].frame.type = "subscribe" /\ OneId(handled[d].frame)
         /\ Answered(d) /\ InRoom(d, RoomIdOf(handled[d].frame))

\* C33: a room broadcast goes over the snapshot of the member set taken
\* when it starts: a connection that subscribes to the room afterwards is not
\* sent the message, and no send is started to a connection that had been
\* removed from the Registry before its turn.
SendStarts(k) ==
  /\ task'[k].pc = "send"
  /\ (task[k].pc # "send" \/ task[k].tgt # task'[k].tgt)
C33_BroadcastOverSnapshot ==
  [][\A k \in Tasks :
       /\ task'[k].ctx \in RoomCtx => task'[k].deliv \subseteq task'[k].snap
       /\ (SendStarts(k) /\ task'[k].ctx \in RoomCtx)
            => /\ task'[k].tgt \in task'[k].snap
               /\ task'[k].tgt \in active_connections
               /\ task'[k].tgt \in active_connections']_vars
C33_Witness ==
  \E k \in Tasks, d \in ConnIds :
    /\ task[k].ctx \in RoomCtx /\ task[k].pc = "send" /\ task[k].rest = {}
    /\ d \notin task[k].snap /\ InRoom(d, task[k].room)
    /\ Answered(d) /\ handled[d].frame.type = "subscribe"

\* C34: handling a subscribe, unsubscribe or ping frame of connection c
\* changes only c's own subscriptions, c's own last_heartbeat and the member
\* set of the named room, and that by c's membership only: every other
\* connection's record and every other room's member set stay as they were,
\* through the registry update, the heartbeat write and the reply.
MembersOf(rooms, r) == IF r \in DOMAIN rooms THEN rooms[r] ELSE {}
OthersUntouched(c, room_id) ==
  /\ active_connections' = active_connections
  /\ conn_user' = conn_user
  /\ websockets' = websockets
  /\ \A d \in ConnIds \ {c} :
       /\ subscriptions'[d] = subscriptions[d]
       /\ last_heartbeat'[d] = last_heartbeat[d]
  /\ \A r \in RoomIds :
       /\ r # room_id
            => /\ (r \in DOMAIN room_subscriptions') = (r \in DOMAIN room_subscriptions)
               /\ MembersOf(room_subscriptions', r) = MembersOf(room_subscriptions, r)
       /\ MembersOf(room_subscriptions', r) \ {c}
            = MembersOf(room_subscriptions, r) \ {c}
BusLoopPcs == {"send", "d_setex", "d_publish", "idle"}
C35_ListenerSurvives ==
  [][/\ (SendDone(BUS) \/ DiscSetexDone(BUS) \/ DiscPublishDone(BUS))
          => /\ task'[BUS].pc \in BusLoopPcs
             /\ task'[BUS].caught > task[BUS].caught => task'[BUS].pc = "idle"
     /\ task'[BUS].pc = "dead" => ~redis_up'
     /\ (BusRecv /\ task[BUS].caught > 0)
          => LET m == Head(bus)
                 to == IF m.type = "presence" THEN WsKeys
                       ELSE MembersOf(room_subscriptions, m.room_id) \cap WsKeys
             IN  IF to = {} THEN task'[BUS].pc = "idle"
                 ELSE /\ task'[BUS].pc = "send" /\ task'[BUS].tgt \in to
                      /\ task'[BUS].rest = to \ {task'[BUS].tgt}]_vars

C35_Witness ==
  \E c, d \in ConnIds :
    /\ task[BUS].caught = 1 /\ task[BUS].pc = "idle" /\ task[BUS].bno = 2
    /\ hist[c].send_failed /\ hist[c].keyerror /\ ~Registered(c)
    /\ Registered(d) /\ task[BUS].deliv = {d}
    /\ hist[d].rcvd = <<<<BUS, 2>>>>

\* C36: at every suspension point the connection map and the socket map
\* have the same key set: a connection id has a Connection record if and
\* only if it has a socket entry (and it has at most one).
C36_SameKeys ==
  /\ WsKeys = active_connections
  /\ \A i, j \in 1..Len(websockets) : websockets[i] = websockets[j] => i = j

C36_Witness ==
  \E c, d \in ConnIds :
    /\ task[c].pc = "c_setex" /\ Registered(c) /\ c \in WsKeys
    /\ hist[d].removals = 1 /\ ~Registered(d) /\ d \notin WsKeys
    /\ task[d].cid

\* C37: a typing frame causes a typing-store write and a room broadcast only
\* while the sending connection is in the Registry: a frame read by the
\* dispatcher of a connection that has been removed writes nothing to the
\* store, changes no room and has no frame sent to another connection.
C37_TypingOnlyWhileRegistered ==
  \A c \in ConnIds :
    (handled[c].gone /\ ~handled[c].live)
      => /\ ~handled[c].store /\ ~handled[c].bcast /\ ~handled[c].reg
         /\ (task[c].pc = "send" => task[c].tgt = c)

\* C38: the TypingBroadcast made for a typing frame identifies its room:
\* exactly one of channel_id / dm_id is set, it equals the id the sender
\* gave and it is in the field the sender used, for every id a client can
\* subscribe with. SubscribeMessage and TypingMessage take any string in
\* either field: an id of the channels service is a UUID without prefix.
AnyIds == ChannelVals \cup DmVals \cup {<<"", "1">>}
TypingFrames ==
  {frame \in [type : {"typing"}, channel_id : AnyIds \cup {NoId},
                                  dm_id : AnyIds \cup {NoId}] : OneId(frame)}
C38_TypingIdentifiesRoom ==
  \A c \in active_connections, frame \in TypingFrames :
    LET out == TypingBroadcast(RoomIdOf(frame), conn_user[c])
    IN  /\ out.channel_id = frame.channel_id
        /\ out.dm_id = frame.dm_id

\* C39: at a wake-up of the watchdog of a registered connection, the socket
\* is closed with 1008 if more than 2 x HEARTBEAT_INTERVAL has passed since
\* the last heartbeat and left alone, to be looked at one interval later, if
\* exactly that or less has passed; a wake-up that comes on time, one
\* interval after the one before, closes no later than 3 x HEARTBEAT_INTERVAL
\* after the heartbeat.
C39_ClosedAtFirstLateWake ==
  [][\A c \in ConnIds :
       (WdWake(c) /\ Registered(c))
         => LET gap == now - last_heartbeat[c]
            IN  /\ gap > 2 * HEARTBEAT_INTERVAL
                     => /\ sock'[c] = "closed" /\ wd'[c].pc = "done"
                        /\ sock[c] # "closed" => close_code'[c] = 1008
                        /\ OnTime(c) => gap <= 3 * HEARTBEAT_INTERVAL
                /\ gap <= 2 * HEARTBEAT_INTERVAL
                     => /\ sock'[c] = sock[c] /\ close_code'[c] = close_code[c]
                        /\ wd'[c].pc = "sleep"
                        /\ wd'[c].wake = now + HEARTBEAT_INTERVAL]_vars

C39_Witness ==
  \E c \in ConnIds :
    /\ hist[c].closed_by = "watchdog" /\ close_code[c] = 1008
    /\ hist[c].close_gap = 3 * HEARTBEAT_INTERVAL
    /\ now = 3 * HEARTBEAT_INTERVAL /\ last_heartbeat[c] = 0
    /\ hist[c].punctual /\ ~hist[c].broke
    /\ \A d \in ConnIds \ {c} : ~task[d].cid

====
